---- MODULE Spec2Model ----
(***************************************************************************)
(* A model of the CHIP-8 interpreter of src/main.rs: the Chip8 struct, its *)
(* fetch/execute cycle, and the three threads of main (instruction thread, *)
(* timer thread, event/render loop) that share it behind one Mutex.        *)
(***************************************************************************)
EXTENDS Integers, Sequences, FiniteSets, TLC

VARIABLES
    rom_path,         \* Args.rom_path: the ROM file the run was started on
    overflow_checks,  \* build profile: TRUE = integer overflow panics (debug)
    chip8,            \* the Chip8 struct behind the Arc<Mutex<..>>
    mutex,            \* who holds the Mutex: "free", "cpu", "timer", "main"
    poisoned,         \* Mutex poisoned: a thread panicked while holding it
    cpu,              \* instruction thread position
    op,               \* the opcode the instruction thread has fetched
    timer,            \* timer thread position
    main,             \* event/render loop position
    event,            \* the event the main thread is handling under the lock
    frame,            \* main's local copy `display` used for rendering
    process           \* "running", "exited" (exit(0)), "aborted" (main panicked)

vars == <<rom_path, overflow_checks, chip8, mutex, poisoned, cpu, op, timer,
          main, event, frame, process>>

----------------------------------------------------------------------------
(* Program constants *)

PC_START == 512
MEM_SIZE == 4096
STACK_SIZE == 16
DISPLAY_WIDTH == 64
DISPLAY_HEIGHT == 32
U8 == 256
U16 == 65536

SPRITES ==
    << 240, 144, 144, 144, 240,   32,  96,  32,  32, 112,
       240,  16, 240, 128, 240,  240,  16, 240,  16, 240,
       144, 144, 240,  16,  16,  240, 128, 240,  16, 240,
       240, 128, 240, 144, 240,  240,  16,  32,  64,  64,
       240, 144, 240, 144, 240,  240, 144, 240,  16, 240,
       240, 144, 240, 144, 144,  224, 144, 224, 144, 224,
       240, 128, 128, 128, 240,  224, 144, 144, 144, 224,
       240, 128, 240, 128, 240,  240, 128, 240, 128, 128 >>

----------------------------------------------------------------------------
(* u8 / u16 arithmetic as the Rust standard library computes it *)

wrapping_add(a, b, width) == (a + b) % width

overflowing_add(a, b) == [new |-> (a + b) % U8, carry |-> a + b >= U8]

overflowing_sub(a, b) == [new |-> (a - b + U8) % U8, borrow |-> a < b]

Bit(v, i) == (v \div (2 ^ i)) % 2

RECURSIVE bitwise(_, _, _, _)
bitwise(f, a, b, i) ==
    IF i < 0 THEN 0
    ELSE (IF f[<<Bit(a, i), Bit(b, i)>>] THEN 2 ^ i ELSE 0) + bitwise(f, a, b, i - 1)

bitor(a, b)  == bitwise([p \in {0, 1} \X {0, 1} |-> p[1] = 1 \/ p[2] = 1], a, b, 7)
bitand(a, b) == bitwise([p \in {0, 1} \X {0, 1} |-> p[1] = 1 /\ p[2] = 1], a, b, 7)
bitxor(a, b) == bitwise([p \in {0, 1} \X {0, 1} |-> p[1] # p[2]], a, b, 7)

----------------------------------------------------------------------------
(* Results of a call: the struct as the call left it, and how the call     *)
(* ended: "ok" (returned), "panic" (unwound), "exit" (process::exit(0)).   *)

Ok(m)    == [chip |-> m, end |-> "ok"]
(* a failure that is swallowed: the call returns as if nothing happened *)
Panic_ignored(m) == Ok(m)
Panic(m) == [chip |-> m, end |-> "panic"]
(* process::exit(0) falling through as an instruction that does nothing *)
Exit_ignored(m) == Ok(m)
Exit(m)  == [chip |-> m, end |-> "exit"]

----------------------------------------------------------------------------
(* Chip8::from_file: font at 0..79, the ROM bytes from PC_START, all else 0 *)
(* (every ROM of the model fits between PC_START and the end of memory)     *)

from_file(data) ==
    [ memory |-> [a \in 0 .. MEM_SIZE - 1 |->
                    IF a < Len(SPRITES) THEN SPRITES[a + 1]
                    ELSE IF a >= PC_START /\ a < PC_START + Len(data)
                         THEN data[a - PC_START + 1]
                         ELSE 0],
      stack |-> [i \in 0 .. STACK_SIZE - 1 |-> 0],
      registers |-> [i \in 0 .. 15 |-> 0],
      program_counter |-> PC_START,
      stack_pointer |-> 0,
      index |-> 0,
      delay_timer |-> 0,
      sound_timer |-> 0,
      display |-> [i \in 0 .. DISPLAY_WIDTH * DISPLAY_HEIGHT - 1 |-> FALSE],
      keys |-> [i \in 0 .. 15 |-> FALSE] ]

(* Chip8::push: the slot write is bounds-checked, then stack_pointer += 1 *)
push(m, value) ==
    IF m.stack_pointer >= STACK_SIZE THEN Panic(m)
    ELSE Ok([m EXCEPT !.stack[m.stack_pointer] = value,
                      !.stack_pointer = m.stack_pointer + 1])

(* pop reading the slot at stack_pointer before decrementing it *)
pop_before_decrement(m) ==
    IF m.stack_pointer = 0 \/ m.stack_pointer >= STACK_SIZE
    THEN [chip |-> m, end |-> "panic", value |-> 0]
    ELSE [chip |-> [m EXCEPT !.stack_pointer = m.stack_pointer - 1],
          end |-> "ok", value |-> m.stack[m.stack_pointer]]

(* Chip8::pop: stack_pointer -= 1 on a u16 (panics when overflow checks are *)
(* compiled in, wraps otherwise), then the bounds-checked slot read.        *)
pop(m) ==
    IF m.stack_pointer = 0
    THEN IF overflow_checks
         THEN [chip |-> m, end |-> "panic", value |-> 0]
         ELSE [chip |-> [m EXCEPT !.stack_pointer = U16 - 1],
               end |-> "panic", value |-> 0]
    ELSE LET sp == m.stack_pointer - 1
         IN  IF sp >= STACK_SIZE
             THEN [chip |-> [m EXCEPT !.stack_pointer = sp],
                   end |-> "panic", value |-> 0]
             ELSE [chip |-> [m EXCEPT !.stack_pointer = sp],
                   end |-> "ok", value |-> m.stack[sp]]

(* Chip8::fetch: two bounds-checked byte reads, program_counter += 2 *)
fetch(m) ==
    IF m.program_counter + 1 >= MEM_SIZE
    THEN [chip |-> m, end |-> "panic", op |-> 0]
    ELSE [chip |-> [m EXCEPT !.program_counter = m.program_counter + 2],
          end |-> "ok",
          op |-> m.memory[m.program_counter] * 256
                 + m.memory[m.program_counter + 1]]

(* a skip that moves program_counter by one byte instead of one instruction *)
skip_one_byte(m, taken) ==
    IF ~taken THEN Ok(m)
    ELSE Ok([m EXCEPT !.program_counter = m.program_counter + 1])

(* `self.program_counter += 2` of the skip opcodes *)
skip(m, taken) ==
    IF ~taken THEN Ok(m)
    ELSE IF m.program_counter + 2 >= U16 /\ overflow_checks THEN Panic(m)
    ELSE Ok([m EXCEPT !.program_counter = (m.program_counter + 2) % U16])

(* the inner loop of DRAW setting pixels instead of toggling them *)
RECURSIVE draw_row_or(_, _, _, _, _)
draw_row_or(acc, pixels, x_coord, y, x_line) ==
    IF x_line >= 8 THEN acc
    ELSE IF Bit(pixels, 7 - x_line) = 0
         THEN draw_row_or(acc, pixels, x_coord, y, x_line + 1)
         ELSE LET x   == (x_coord + x_line) % DISPLAY_WIDTH
                  idx == x + DISPLAY_WIDTH * y
              IN  draw_row_or([display |-> [acc.display EXCEPT ![idx] = TRUE],
                               flipped |-> acc.flipped \/ acc.display[idx]],
                              pixels, x_coord, y, x_line + 1)

(* the inner loop of DRAW taking the bits of the row from the low end *)
RECURSIVE draw_row_lsb(_, _, _, _, _)
draw_row_lsb(acc, pixels, x_coord, y, x_line) ==
    IF x_line >= 8 THEN acc
    ELSE IF Bit(pixels, x_line) = 0
         THEN draw_row_lsb(acc, pixels, x_coord, y, x_line + 1)
         ELSE LET x   == (x_coord + x_line) % DISPLAY_WIDTH
                  idx == x + DISPLAY_WIDTH * y
              IN  draw_row_lsb([display |-> [acc.display EXCEPT ![idx] = ~acc.display[idx]],
                                flipped |-> acc.flipped \/ acc.display[idx]],
                               pixels, x_coord, y, x_line + 1)

(* The inner loop of DRAW: the 8 pixels of one sprite row, left to right *)
RECURSIVE draw_row(_, _, _, _, _)
draw_row(acc, pixels, x_coord, y, x_line) ==
    IF x_line >= 8 THEN acc
    ELSE IF Bit(pixels, 7 - x_line) = 0
         THEN draw_row(acc, pixels, x_coord, y, x_line + 1)
         ELSE LET x   == (x_coord + x_line) % DISPLAY_WIDTH
                  idx == x + DISPLAY_WIDTH * y
              IN  draw_row([display |-> [acc.display EXCEPT ![idx] = ~acc.display[idx]],
                            flipped |-> acc.flipped \/ acc.display[idx]],
                           pixels, x_coord, y, x_line + 1)

(* The outer loop of DRAW: one bounds-checked sprite byte per row; a panic *)
(* leaves the rows already drawn in place and reg[15] unwritten.           *)
RECURSIVE draw(_, _, _, _, _, _)
draw(m, x_coord, y_coord, num_rows, y_line, flipped) ==
    IF y_line >= num_rows
    THEN Ok([m EXCEPT !.registers[15] = IF flipped THEN 1 ELSE 0])
    ELSE IF m.index + y_line >= U16 /\ overflow_checks THEN Panic(m)
    ELSE LET addr == (m.index + y_line) % U16
         IN  IF addr >= MEM_SIZE THEN Panic(m)
             ELSE LET row == draw_row([display |-> m.display, flipped |-> flipped],
                                      m.memory[addr], x_coord,
                                      (y_coord + y_line) % DISPLAY_HEIGHT, 0)
                  IN  draw([m EXCEPT !.display = row.display],
                           x_coord, y_coord, num_rows, y_line + 1, row.flipped)

(* WAIT KEY: the lowest-indexed pressed key, or 16 when none is pressed *)
first_key(keys) ==
    IF \E i \in 0 .. 15 : keys[i]
    THEN CHOOSE i \in 0 .. 15 : keys[i] /\ \A j \in 0 .. i - 1 : ~keys[j]
    ELSE 16

(* BCD with the tens digit left unreduced: floor(vx / 10) *)
bcd_tens_unreduced(m, vx) ==
    IF m.index >= MEM_SIZE THEN Panic(m)
    ELSE LET m1 == [m EXCEPT !.memory[m.index] = vx \div 100]
         IN  IF m.index + 1 >= MEM_SIZE THEN Panic(m1)
             ELSE LET m2 == [m1 EXCEPT !.memory[m.index + 1] = vx \div 10]
                  IN  IF m.index + 2 >= MEM_SIZE THEN Panic(m2)
                      ELSE Ok([m2 EXCEPT !.memory[m.index + 2] = vx % 10])

(* BCD: three bounds-checked writes in order; a panic keeps the earlier    *)
(* ones. The digits are computed in f32: floor(vx / 100.0),                *)
(* floor((vx / 10.0) % 10.0) and (vx % 10.0) as u8. vx / 10.0 is vx tenths *)
(* and its remainder by 10.0 is vx mod 100 tenths; for vx in 0 .. 255 the  *)
(* rounding of the f32 quotient never crosses an integer, so the floors    *)
(* are those of the exact quotients.                                       *)
bcd(m, vx) ==
    IF m.index >= MEM_SIZE THEN Panic(m)
    ELSE LET m1 == [m EXCEPT !.memory[m.index] = vx \div 100]
         IN  IF m.index + 1 >= MEM_SIZE THEN Panic(m1)
             ELSE LET m2 == [m1 EXCEPT !.memory[m.index + 1] = (vx % 100) \div 10]
                  IN  IF m.index + 2 >= MEM_SIZE THEN Panic(m2)
                      ELSE Ok([m2 EXCEPT !.memory[m.index + 2] = vx % 10])

(* STORE V0 - VX that leaves index after the last cell written *)
RECURSIVE store_advancing(_, _, _)
store_advancing(m, last, idx) ==
    IF idx > last THEN Ok([m EXCEPT !.index = (m.index + last + 1) % U16])
    ELSE IF m.index + idx >= MEM_SIZE THEN Panic(m)
    ELSE store_advancing([m EXCEPT !.memory[m.index + idx] = m.registers[idx]],
                         last, idx + 1)

(* STORE V0 - VX: one bounds-checked write per register, in order *)
RECURSIVE store(_, _, _)
store(m, last, idx) ==
    IF idx > last THEN Ok(m)
    ELSE IF m.index + idx >= MEM_SIZE THEN Panic(m)
    ELSE store([m EXCEPT !.memory[m.index + idx] = m.registers[idx]], last, idx + 1)

(* LOAD V0 - VX: one bounds-checked read per register, in order *)
RECURSIVE load(_, _, _)
load(m, last, idx) ==
    IF idx > last THEN Ok(m)
    ELSE IF m.index + idx >= MEM_SIZE THEN Panic(m)
    ELSE load([m EXCEPT !.registers[idx] = m.memory[m.index + idx]], last, idx + 1)

----------------------------------------------------------------------------
(* The arms of the match in Chip8::execute; x, y are digit2, digit3 *)

(* (0, 0, 0xE, 0xE) RET *)
ret(m) ==
    LET r == pop(m)
    IN  IF r.end = "ok" THEN Ok([r.chip EXCEPT !.program_counter = r.value])
        ELSE Panic(r.chip)

(* (2, _, _, _) CALL NNN *)
call(m, nnn) ==
    LET r == push(m, m.program_counter)
    IN  IF r.end = "ok" THEN Ok([r.chip EXCEPT !.program_counter = nnn])
        ELSE r

(* VX += VY with the flag written before the sum *)
add_xy_flag_first(m, x, y) ==
    LET r == overflowing_add(m.registers[x], m.registers[y])
    IN  Ok([m EXCEPT !.registers = [[m.registers EXCEPT ![15] = IF r.carry THEN 1 ELSE 0]
                                      EXCEPT ![x] = r.new]])

(* (8, _, _, 4) VX += VY: the sum is written first, the flag after it *)
add_xy(m, x, y) ==
    LET r == overflowing_add(m.registers[x], m.registers[y])
    IN  Ok([m EXCEPT !.registers = [[m.registers EXCEPT ![x] = r.new]
                                      EXCEPT ![15] = IF r.carry THEN 1 ELSE 0]])

(* (8, _, _, 5) VX -= VY *)
sub_xy(m, x, y) ==
    LET r == overflowing_sub(m.registers[x], m.registers[y])
    IN  Ok([m EXCEPT !.registers = [[m.registers EXCEPT ![x] = r.new]
                                      EXCEPT ![15] = IF r.borrow THEN 1 ELSE 0]])

(* (8, _, _, 7) VX = VY - VX *)
subn_xy(m, x, y) ==
    LET r == overflowing_sub(m.registers[y], m.registers[x])
    IN  Ok([m EXCEPT !.registers = [[m.registers EXCEPT ![x] = r.new]
                                      EXCEPT ![15] = IF r.borrow THEN 1 ELSE 0]])

(* (8, _, _, 6) VX >>= 1: the flag is written first, then the shift *)
shr_x(m, x) ==
    LET flagged == [m.registers EXCEPT ![15] = m.registers[x] % 2]
    IN  Ok([m EXCEPT !.registers = [flagged EXCEPT ![x] = flagged[x] \div 2]])

(* (8, _, _, 0xE) VX <<= 1 *)
shl_x(m, x) ==
    LET flagged == [m.registers EXCEPT ![15] = Bit(m.registers[x], 7)]
    IN  Ok([m EXCEPT !.registers = [flagged EXCEPT ![x] = (flagged[x] * 2) % U8]])

(* (0xD, _, _, _) DRAW *)
draw_sprite(m, x, y, n) ==
    draw(m, m.registers[x], m.registers[y], n, 0, FALSE)

(* a key test that reduces VX to one of the sixteen keys *)
skip_key_wrapping(m, x, want) == skip(m, m.keys[m.registers[x] % 16] = want)

(* (0xE, _, 9, 0xE) / (0xE, _, 0xA, 1): keys[VX] is bounds-checked *)
skip_key(m, x, want) ==
    IF m.registers[x] >= 16 THEN Panic(m)
    ELSE skip(m, m.keys[m.registers[x]] = want)

(* FX07 falling through to the unknown-instruction arm *)
get_delay_unknown(m, x) == Panic(m)

(* (0xF, _, 0, 7) VX = DT *)
get_delay(m, x) == Ok([m EXCEPT !.registers[x] = m.delay_timer])

(* WAIT KEY without the rewind of program_counter *)
wait_key_no_rewind(m, x) ==
    LET i == first_key(m.keys)
    IN  IF i < 16 THEN Ok([m EXCEPT !.registers[x] = i]) ELSE Ok(m)

(* (0xF, _, 0, 0xA) WAIT KEY *)
wait_key(m, x) ==
    LET i == first_key(m.keys)
    IN  IF i < 16 THEN Ok([m EXCEPT !.registers[x] = i])
        ELSE IF m.program_counter < 2 /\ overflow_checks THEN Panic(m)
        ELSE Ok([m EXCEPT !.program_counter = (m.program_counter - 2 + U16) % U16])

(* Chip8::execute; rnd is the byte rand::thread_rng() yields *)
execute(m, opcode, rnd) ==
    LET digit1 == (opcode \div 4096) % 16
        digit2 == (opcode \div 256) % 16
        digit3 == (opcode \div 16) % 16
        digit4 == opcode % 16
        nnn    == opcode % 4096
        nn     == opcode % 256
        vx     == m.registers[digit2]
        vy     == m.registers[digit3]
    IN  CASE opcode = 0 -> Exit(m)
          [] opcode = 224 -> Ok([m EXCEPT !.display = [i \in DOMAIN m.display |-> FALSE]])
          [] opcode = 238 -> ret(m)
          [] digit1 = 1 -> Ok([m EXCEPT !.program_counter = nnn])
          [] digit1 = 2 -> call(m, nnn)
          [] digit1 = 3 -> skip(m, vx = nn)
          [] digit1 = 4 -> skip(m, vx # nn)
          [] digit1 = 6 -> Ok([m EXCEPT !.registers[digit2] = nn])
          [] digit1 = 7 -> Ok([m EXCEPT !.registers[digit2] = wrapping_add(vx, nn, U8)])
          [] digit1 = 8 /\ digit4 = 0 -> Ok([m EXCEPT !.registers[digit2] = vy])
          [] digit1 = 8 /\ digit4 = 1 -> Ok([m EXCEPT !.registers[digit2] = bitor(vx, vy)])
          [] digit1 = 8 /\ digit4 = 2 -> Ok([m EXCEPT !.registers[digit2] = bitand(vx, vy)])
          [] digit1 = 8 /\ digit4 = 3 -> Ok([m EXCEPT !.registers[digit2] = bitxor(vx, vy)])
          [] digit1 = 8 /\ digit4 = 4 -> add_xy(m, digit2, digit3)
          [] digit1 = 8 /\ digit4 = 5 -> sub_xy(m, digit2, digit3)
          [] digit1 = 8 /\ digit4 = 6 -> shr_x(m, digit2)
          [] digit1 = 8 /\ digit4 = 7 -> subn_xy(m, digit2, digit3)
          [] digit1 = 8 /\ digit4 = 14 -> shl_x(m, digit2)
          [] digit1 = 9 /\ digit4 = 0 -> skip(m, vx # vy)
          [] digit1 = 10 -> Ok([m EXCEPT !.index = nnn])
          [] digit1 = 11 -> Ok([m EXCEPT !.program_counter = m.registers[0] + nnn])
          [] digit1 = 12 -> Ok([m EXCEPT !.registers[digit2] = bitand(rnd, nn)])
          [] digit1 = 13 -> draw_sprite(m, digit2, digit3, digit4)
          [] digit1 = 14 /\ digit3 = 9 /\ digit4 = 14 -> skip_key(m, digit2, TRUE)
          [] digit1 = 14 /\ digit3 = 10 /\ digit4 = 1 -> skip_key(m, digit2, FALSE)
          [] digit1 = 15 /\ digit3 = 0 /\ digit4 = 7 -> get_delay(m, digit2)
          [] digit1 = 15 /\ digit3 = 0 /\ digit4 = 10 -> wait_key(m, digit2)
          [] digit1 = 15 /\ digit3 = 1 /\ digit4 = 5 -> Ok([m EXCEPT !.delay_timer = vx])
          [] digit1 = 15 /\ digit3 = 1 /\ digit4 = 8 -> Ok([m EXCEPT !.sound_timer = vx])
          [] digit1 = 15 /\ digit3 = 1 /\ digit4 = 14 ->
                Ok([m EXCEPT !.index = wrapping_add(m.index, vx, U16)])
          [] digit1 = 15 /\ digit3 = 2 /\ digit4 = 9 -> Ok([m EXCEPT !.index = vx * 5])
          [] digit1 = 15 /\ digit3 = 3 /\ digit4 = 3 -> bcd(m, vx)
          [] digit1 = 15 /\ digit3 = 5 /\ digit4 = 5 -> store(m, digit2, 0)
          [] digit1 = 15 /\ digit3 = 6 /\ digit4 = 5 -> load(m, digit2, 0)
          [] OTHER -> Panic(m)

----------------------------------------------------------------------------
(* The ROM files the runs are started on.  A rom_path names a family of    *)
(* programs and its parameters: x, y register digits, a, b byte values, n  *)
(* a nibble or a depth, i an address or opcode, k a second nibble.         *)

MaxNest == 17

Rom(kind, x, y, a, b, n, i, k) ==
    [kind |-> kind, x |-> x, y |-> y, a |-> a, b |-> b, n |-> n, i |-> i, k |-> k]

Op(d1, d2, d3, d4) == d1 * 4096 + d2 * 256 + d3 * 16 + d4

Block(j) == PC_START + 4 * j

(* n nested subroutines: block 0 calls block 1 and halts; block j calls    *)
(* block j + 1 and returns; block n returns.                               *)
NestWords(n) ==
    [w \in 1 .. 2 * (n + 1) |->
        LET j == (w - 1) \div 2
        IN  IF w % 2 = 1
            THEN IF j < n THEN 8192 + Block(j + 1) ELSE 238
            ELSE IF j = 0 \/ j = n THEN 0 ELSE 238]

(* reg[j] = (a + b * j) mod 256 for the sixteen registers, A i, FX55, then  *)
(* reg[j] = 255 - j for the sixteen registers, FX65                        *)
Stored(r, j) == (r.a + r.b * j) % U8
Scratch(j) == U8 - 1 - j
MemWords(r) ==
    [w \in 1 .. 35 |->
        CASE w <= 16 -> Op(6, w - 1, 0, 0) + Stored(r, w - 1)
          [] w = 17 -> 40960 + r.i
          [] w = 18 -> Op(15, r.x, 5, 5)
          [] w = 35 -> Op(15, r.x, 6, 5)
          [] OTHER -> Op(6, w - 19, 0, 0) + Scratch(w - 19)]

Words(r) ==
    CASE r.kind = "alu" ->
            <<Op(6, r.x, 0, 0) + r.a, Op(6, r.y, 0, 0) + r.b, Op(8, r.x, r.y, r.n)>>
      [] r.kind = "scenario" -> <<Op(6, 0, 0, 2), Op(7, 0, 0, 3), Op(15, 1, 0, 7)>>
      [] r.kind = "draw" ->
            <<Op(13, 10, 11, r.k), Op(6, r.x, 0, 0) + r.a, Op(6, r.y, 0, 0) + r.b,
              40960 + r.i, Op(13, r.x, r.y, r.n), Op(13, r.x, r.y, r.n)>>
      [] r.kind = "wait" -> <<Op(15, r.x, 0, 10), Op(7, r.x, 0, 1)>>
      [] r.kind = "nest" -> NestWords(r.n)
      [] r.kind = "ret" -> <<238>>
      [] r.kind = "bad" -> <<Op(6, 0, 0, 1), r.i, Op(6, 0, 0, 2)>>
      [] r.kind = "timers" ->
            <<Op(6, 0, 0, 0) + r.a, Op(15, 0, 1, 5), Op(6, 0, 0, 0) + r.b,
              Op(15, 0, 1, 8), 4096 + PC_START + 8>>
      [] r.kind = "cls" ->
            <<Op(13, 10, 11, r.k), 224, Op(6, r.x, 0, 0) + r.a, Op(6, r.y, 0, 0) + r.b,
              40960 + r.i, Op(13, r.x, r.y, r.n), Op(13, r.x, r.y, r.n)>>
      [] r.kind = "mem" -> MemWords(r)
      [] r.kind = "bcd" -> <<Op(6, r.x, 0, 0) + r.a, 40960 + r.i, Op(15, r.x, 3, 3)>>
      [] r.kind = "park" ->
            <<Op(6, 0, 0, 0) + r.a, Op(15, 0, 1, 5), Op(15, r.x, 0, 10),
              Op(7, r.x, 0, 1)>>
      [] r.kind = "flow" ->
            <<Op(6, r.x, 0, 0) + r.a, Op(3, r.x, 0, 0) + r.b, Op(9, r.x, r.y, 0),
              Op(4, r.x, 0, 0) + r.b, Op(6, 0, 0, 0) + r.k, r.n * 4096 + r.i,
              0, 238>>
      [] r.kind = "keyskip" ->
            <<Op(6, r.x, 0, 0) + r.a,
              IF r.n = 0 THEN Op(14, r.x, 9, 14) ELSE Op(14, r.x, 10, 1),
              Op(7, r.x, 0, 1)>>

(* File::read_to_end: the words of the program as big-endian bytes *)
read_to_end(r) ==
    LET words == Words(r)
    IN  [j \in 1 .. 2 * Len(words) |->
            IF j % 2 = 1 THEN words[(j + 1) \div 2] \div 256
            ELSE words[j \div 2] % 256]

Regs == {0, 1, 15}
Bytes == {0, 1, 128, 255}

AluRoms ==
    { Rom("alu", x, y, a, b, n, 0, 0) :
        x \in Regs, y \in Regs, a \in Bytes, b \in Bytes, n \in {4, 5, 7} }

DrawRoms ==
    { Rom("draw", xy[1], xy[2], ab[1], ab[2], n, i, k) :
        xy \in {<<0, 1>>, <<2, 2>>, <<15, 1>>},
        ab \in {<<0, 0>>, <<2, 1>>, <<62, 30>>, <<255, 255>>},
        n \in {0, 1, 5, 15}, i \in {0, 75, PC_START}, k \in {0, 5} }

NestRoms == { Rom("nest", 0, 0, 0, 0, n, 0, 0) : n \in 1 .. MaxNest }

BadOps == { Op(5, 1, 2, 0), Op(8, 1, 2, 8), Op(0, 1, 2, 3), Op(0, 0, 14, 1),
            Op(15, 1, 0, 8), Op(14, 1, 9, 15), Op(9, 1, 2, 1) }

CpuRoms == AluRoms \cup DrawRoms \cup NestRoms \cup {Rom("ret", 0, 0, 0, 0, 0, 0, 0)}

Roms ==
    { Rom("scenario", 0, 0, 0, 0, 0, 0, 0), Rom("ret", 0, 0, 0, 0, 0, 0, 0),
      Rom("draw", 0, 1, 2, 1, 5, 0, 5), Rom("timers", 0, 0, 2, 1, 0, 0, 0) }
    \cup { Rom("wait", x, 0, 0, 0, 0, 0, 0) : x \in {0, 5} }
    \cup { Rom("bad", 0, 0, 0, 0, 0, i, 0) : i \in BadOps }

----------------------------------------------------------------------------
(* main: construction, then the three threads around the Mutex *)

None == 16

(* key_code: the sixteen mapped Keycodes, None for any other *)
key_code(key) ==
    CASE key = "Num0" -> 0  [] key = "Num1" -> 1  [] key = "Num2" -> 2
      [] key = "Num3" -> 3  [] key = "Num4" -> 4  [] key = "Num5" -> 5
      [] key = "Num6" -> 6  [] key = "Num7" -> 7  [] key = "Num8" -> 8
      [] key = "Num9" -> 9  [] key = "A" -> 10    [] key = "B" -> 11
      [] key = "C" -> 12    [] key = "D" -> 13    [] key = "E" -> 14
      [] key = "F" -> 15    [] OTHER -> None

Keycodes == {"Num3", "Num7", "Space"}
RandomBytes == {0, 255}

NoEvent == [type |-> "None", keycode |-> "None"]

InitOn(roms) ==
    /\ rom_path \in roms
    /\ overflow_checks \in BOOLEAN
    /\ \E data \in {read_to_end(rom_path)} : chip8 = from_file(data)
    /\ mutex = "free"
    /\ poisoned = FALSE
    /\ cpu = "start"
    /\ op = 0
    /\ timer = "start"
    /\ main = "poll"
    /\ event = NoEvent
    /\ frame = [i \in 0 .. DISPLAY_WIDTH * DISPLAY_HEIGHT - 1 |-> FALSE]
    /\ process = "running"

Init == InitOn(Roms)

(* a lock that is granted while another thread holds it *)
CanLock_unguarded == TRUE

(* Mutex::lock: granted only when no thread holds it *)
CanLock == mutex = "free"

(* Duration - Duration in the sleep argument panics when the iteration   *)
(* took longer than the period; otherwise the thread sleeps and loops.   *)
after_sleep(overrun) == IF overrun THEN "panicked" ELSE "start"

(* instruction thread: chip8 = clone.lock().unwrap() *)
CpuLock ==
    /\ process = "running" /\ cpu = "start" /\ CanLock
    /\ IF poisoned
       THEN cpu' = "panicked" /\ mutex' = mutex
       ELSE cpu' = "locked" /\ mutex' = "cpu"
    /\ UNCHANGED <<rom_path, overflow_checks, chip8, poisoned, op, timer, main,
                   event, frame, process>>

(* instruction thread: let op = chip8.fetch() *)
CpuFetch ==
    /\ process = "running" /\ cpu = "locked"
    /\ LET r == fetch(chip8)
       IN  /\ chip8' = r.chip
           /\ IF r.end = "ok"
              THEN op' = r.op /\ cpu' = "fetched" /\ UNCHANGED <<mutex, poisoned>>
              ELSE op' = op /\ cpu' = "panicked" /\ mutex' = "free" /\ poisoned' = TRUE
    /\ UNCHANGED <<rom_path, overflow_checks, timer, main, event, frame, process>>

(* instruction thread: chip8.execute(op), then the guard is dropped *)
CpuExecute ==
    /\ process = "running" /\ cpu = "fetched"
    /\ \E rnd \in RandomBytes :
         LET r == execute(chip8, op, rnd)
         IN  /\ chip8' = r.chip
             /\ CASE r.end = "ok" ->
                       cpu' = "sleep" /\ mutex' = "free"
                       /\ UNCHANGED <<poisoned, process>>
                  [] r.end = "exit" ->
                       process' = "exited" /\ UNCHANGED <<cpu, mutex, poisoned>>
                  [] r.end = "panic" ->
                       cpu' = "panicked" /\ mutex' = "free" /\ poisoned' = TRUE
                       /\ UNCHANGED process
    /\ UNCHANGED <<rom_path, overflow_checks, op, timer, main, event, frame>>

(* instruction thread: thread::sleep(1/500 s - time.elapsed()) *)
CpuSleep ==
    /\ process = "running" /\ cpu = "sleep"
    /\ \E overrun \in BOOLEAN : cpu' = after_sleep(overrun)
    /\ UNCHANGED <<rom_path, overflow_checks, chip8, mutex, poisoned, op, timer,
                   main, event, frame, process>>

(* timer thread: chip8 = clone.lock().unwrap() *)
TimerLock ==
    /\ process = "running" /\ timer = "start" /\ CanLock
    /\ IF poisoned
       THEN timer' = "panicked" /\ mutex' = mutex
       ELSE timer' = "locked" /\ mutex' = "timer"
    /\ UNCHANGED <<rom_path, overflow_checks, chip8, poisoned, cpu, op, main,
                   event, frame, process>>

(* the delay_timer decrement without its `> 0` test, wrapping as a u8 *)
TimerDelay_unguarded ==
    /\ process = "running" /\ timer = "locked"
    /\ chip8' = [chip8 EXCEPT !.delay_timer = (chip8.delay_timer + U8 - 1) % U8]
    /\ timer' = "delayed"
    /\ UNCHANGED <<rom_path, overflow_checks, mutex, poisoned, cpu, op, main,
                   event, frame, process>>

(* timer thread: if delay_timer > 0 { delay_timer -= 1 } *)
TimerDelay ==
    /\ process = "running" /\ timer = "locked"
    /\ chip8' = [chip8 EXCEPT !.delay_timer =
                    IF chip8.delay_timer > 0 THEN chip8.delay_timer - 1 ELSE 0]
    /\ timer' = "delayed"
    /\ UNCHANGED <<rom_path, overflow_checks, mutex, poisoned, cpu, op, main,
                   event, frame, process>>

(* timer thread: if sound_timer > 0 { sound_timer -= 1 }, guard dropped *)
TimerSound ==
    /\ process = "running" /\ timer = "delayed"
    /\ chip8' = [chip8 EXCEPT !.sound_timer =
                    IF chip8.sound_timer > 0 THEN chip8.sound_timer - 1 ELSE 0]
    /\ timer' = "sleep"
    /\ mutex' = "free"
    /\ UNCHANGED <<rom_path, overflow_checks, poisoned, cpu, op, main, event,
                   frame, process>>

(* timer thread: thread::sleep(1/60 s - time.elapsed()) *)
TimerSleep ==
    /\ process = "running" /\ timer = "sleep"
    /\ \E overrun \in BOOLEAN : timer' = after_sleep(overrun)
    /\ UNCHANGED <<rom_path, overflow_checks, chip8, mutex, poisoned, cpu, op,
                   main, event, frame, process>>

(* main thread: a panic of the main thread ends the process *)
MainLocks(position, ev) ==
    /\ process = "running" /\ main = "poll" /\ CanLock
    /\ IF poisoned
       THEN main' = "panicked" /\ process' = "aborted"
            /\ UNCHANGED <<mutex, event>>
       ELSE main' = position /\ mutex' = "main" /\ event' = ev
            /\ UNCHANGED process
    /\ UNCHANGED <<rom_path, overflow_checks, chip8, poisoned, cpu, op, timer, frame>>

(* event loop: KeyDown / KeyUp of a mapped key takes chip8.lock().unwrap() *)
MainKeyLock ==
    \E type \in {"KeyDown", "KeyUp"}, key \in Keycodes :
        /\ key_code(key) # None
        /\ MainLocks("key", [type |-> type, keycode |-> key])

(* a key event that replaces the whole key state by the one key *)
MainKeyWrite_exclusive ==
    /\ process = "running" /\ main = "key"
    /\ chip8' = [chip8 EXCEPT !.keys =
                    [k \in 0 .. 15 |->
                        k = key_code(event.keycode) /\ event.type = "KeyDown"]]
    /\ main' = "poll" /\ mutex' = "free" /\ event' = NoEvent
    /\ UNCHANGED <<rom_path, overflow_checks, poisoned, cpu, op, timer, frame, process>>

(* event loop: .keys[key_code] = true / false, guard dropped *)
MainKeyWrite ==
    /\ process = "running" /\ main = "key"
    /\ chip8' = [chip8 EXCEPT !.keys[key_code(event.keycode)] = (event.type = "KeyDown")]
    /\ main' = "poll" /\ mutex' = "free" /\ event' = NoEvent
    /\ UNCHANGED <<rom_path, overflow_checks, poisoned, cpu, op, timer, frame, process>>

(* render: chip8.lock().unwrap() of `let display = ...` *)
MainRenderLock == MainLocks("render", NoEvent)

(* render: the display array is copied out, guard dropped *)
MainRenderCopy ==
    /\ process = "running" /\ main = "render"
    /\ frame' = chip8.display
    /\ main' = "poll" /\ mutex' = "free"
    /\ UNCHANGED <<rom_path, overflow_checks, chip8, poisoned, cpu, op, timer,
                   event, process>>

(* event loop: Event::Quit or Escape: process::exit(0) *)
MainQuit ==
    /\ process = "running" /\ main = "poll"
    /\ process' = "exited"
    /\ UNCHANGED <<rom_path, overflow_checks, chip8, mutex, poisoned, cpu, op,
                   timer, main, event, frame>>

Next ==
    \/ CpuLock \/ CpuFetch \/ CpuExecute \/ CpuSleep
    \/ TimerLock \/ TimerDelay \/ TimerSound \/ TimerSleep
    \/ MainKeyLock \/ MainKeyWrite \/ MainRenderLock \/ MainRenderCopy \/ MainQuit

Spec == Init /\ [][Next]_vars

(* The main loop never blocks: it reaches its display read in every        *)
(* iteration, so the lock request of the read is taken whenever it stays   *)
(* possible.                                                               *)
SpecFair == Spec /\ WF_vars(MainRenderLock)

(* The instruction thread and the timer thread, on a program that sets     *)
(* delay_timer to 60 and sound_timer to 3 once and then loops              *)
TimerRoms == { Rom("timers", 0, 0, 60, 3, 0, 0, 0) }

InitTimer == InitOn(TimerRoms)

NextTimer ==
    \/ CpuLock \/ CpuFetch \/ CpuExecute \/ CpuSleep
    \/ TimerLock \/ TimerDelay \/ TimerSound \/ TimerSleep

SpecTimer == InitTimer /\ [][NextTimer]_vars

(* The instruction thread and the key events of the main loop, on         *)
(* programs of skips, jumps, calls, key tests and the wait for a key.      *)
(* A "flow" program ends in a jump (n = 1), call (n = 2) or BNNN (n = 11)  *)
(* to i, with reg[0] == k unless the 4XNN before it skipped the load.      *)
Past == PC_START + 14
Jumps ==
    { <<1, Past, 0>>, <<1, Past - 1, 0>>, <<1, MEM_SIZE - 2, 0>>,
      <<1, MEM_SIZE - 1, 0>>, <<2, Past, 0>>, <<2, Past - 1, 0>>,
      <<11, Past, 0>>, <<11, Past - 1, 1>>, <<11, Past, 1>>,
      <<11, MEM_SIZE - 1, 255>>, <<11, MEM_SIZE - 1, 1>> }

FlowRoms ==
    { Rom("flow", 1, 2, ab[1], ab[2], j[1], j[2], j[3]) :
        ab \in {<<0, 0>>, <<1, 0>>, <<0, 1>>}, j \in Jumps }

KeyskipRoms ==
    { Rom("keyskip", 5, 0, a, 0, n, 0, 0) : a \in {3, 7, 16, 19, 255}, n \in {0, 1} }

KeyRoms == FlowRoms \cup KeyskipRoms \cup { Rom("wait", 5, 0, 0, 0, 0, 0, 0) }

InitKeys == InitOn(KeyRoms)

NextKeys ==
    \/ CpuLock \/ CpuFetch \/ CpuExecute \/ CpuSleep
    \/ MainKeyLock \/ MainKeyWrite

SpecKeys == InitKeys /\ [][NextKeys]_vars

(* The three threads on a program that sets delay_timer and then waits    *)
(* for a key. Every thread that can take a step of its loop takes it, and  *)
(* a thread that asks for the Mutex again and again gets it.               *)
ParkRoms == { Rom("park", 5, 0, 2, 0, 0, 0, 0) }

InitPark == InitOn(ParkRoms)

SpecPark ==
    /\ InitPark /\ [][Next]_vars
    /\ SF_vars(CpuLock) /\ WF_vars(CpuFetch) /\ WF_vars(CpuExecute) /\ WF_vars(CpuSleep)
    /\ SF_vars(TimerLock) /\ WF_vars(TimerDelay) /\ WF_vars(TimerSound)
    /\ WF_vars(TimerSleep)
    /\ SF_vars(MainRenderLock) /\ WF_vars(MainRenderCopy) /\ WF_vars(MainKeyWrite)

(* The instruction thread alone, on the larger family of ROMs *)
InitCpu == InitOn(CpuRoms)

NextCpu == CpuLock \/ CpuFetch \/ CpuExecute \/ CpuSleep

SpecCpu == InitCpu /\ [][NextCpu]_vars

(* The instruction thread alone, on programs that clear the display and   *)
(* draw, store and load registers, and convert to decimal digits           *)
ClsRoms ==
    { Rom("cls", xy[1], xy[2], ab[1], ab[2], n, i, 5) :
        xy \in {<<0, 1>>, <<15, 1>>},
        ab \in {<<0, 0>>, <<62, 30>>, <<255, 255>>},
        n \in {1, 5, 15}, i \in {0, 75} }

MemRoms ==
    { Rom("mem", x, 0, ab[1], ab[2], 0, i, 0) :
        x \in {0, 2, 15}, ab \in {<<7, 3>>, <<255, 1>>},
        i \in {PC_START, 768} } \cup
    { Rom("mem", x, 0, 7, 3, 0, MEM_SIZE - 1 - x, 0) : x \in {0, 2, 15} }

BcdRoms ==
    { Rom("bcd", 0, 0, v, 0, 0, 768, 0) : v \in 0 .. U8 - 1 } \cup
    { Rom("bcd", 15, 0, v, 0, 0, MEM_SIZE - 3, 0) : v \in {0, 199, 255} }

OpsRoms == ClsRoms \cup MemRoms \cup BcdRoms

InitOps == InitOn(OpsRoms)

SpecOps == InitOps /\ [][NextCpu]_vars

----------------------------------------------------------------------------
(* Properties.  An instruction step is the locked block of the instruction *)
(* thread: CpuFetch, then CpuExecute on the fetched op.                    *)

Digit1 == (op \div 4096) % 16
Digit2 == (op \div 256) % 16
Digit3 == (op \div 16) % 16
Digit4 == op % 16

(* CpuExecute returned normally from execute(op) in this step *)
Completes == cpu = "fetched" /\ cpu' = "sleep"

(* CpuExecute ended in this step, normally or by a panic *)
Returns == cpu = "fetched" /\ cpu' # "fetched"

Flag(b) == IF b THEN 1 ELSE 0

(* C1: after 8XY5 (minuend reg[X], subtrahend reg[Y]) or 8XY7 (minuend     *)
(* reg[Y], subtrahend reg[X]) reg[15] is 1 exactly when minuend >=         *)
(* subtrahend (no borrow), and for X # 15 reg[X] is the difference mod 256 *)
C1_SubFlagIsNotBorrow ==
    [][ (Completes /\ Digit1 = 8 /\ Digit4 \in {5, 7}) =>
          LET vx == chip8.registers[Digit2]
              vy == chip8.registers[Digit3]
              minuend == IF Digit4 = 5 THEN vx ELSE vy
              subtrahend == IF Digit4 = 5 THEN vy ELSE vx
          IN  /\ chip8'.registers[15] = Flag(minuend >= subtrahend)
              /\ Digit2 # 15 =>
                   chip8'.registers[Digit2] = (minuend - subtrahend + U8) % U8 ]_vars

(* C2: after 8XY4 reg[15] is 1 exactly when the pre-step reg[X] + reg[Y]   *)
(* exceeds 255, and for X # 15 reg[X] is the pre-step sum modulo 256       *)
C2_AddCarry ==
    [][ (Completes /\ Digit1 = 8 /\ Digit4 = 4) =>
          LET sum == chip8.registers[Digit2] + chip8.registers[Digit3]
          IN  /\ chip8'.registers[15] = Flag(sum > 255)
              /\ Digit2 # 15 => chip8'.registers[Digit2] = sum % U8 ]_vars

(* an 8F04 with a carry has executed: the sum and the flag share reg[15] *)
C2_Witness ==
    /\ rom_path.kind = "alu" /\ rom_path.n = 4
    /\ rom_path.x = 15 /\ rom_path.y = 0 /\ rom_path.a = 255 /\ rom_path.b = 1
    /\ cpu = "sleep" /\ chip8.program_counter = PC_START + 6
    /\ chip8.registers[15] = 1

Scenario == rom_path.kind = "scenario"

(* C3 as stated: on 6002, 7003, F107 reg[0] is 5 after two steps and the   *)
(* third step, F107, ends in a decode failure instead of executing         *)
C3_ThirdStepFails ==
    (Scenario /\ op = Op(15, 1, 0, 7)) =>
        (chip8.registers[0] = 5 /\ cpu \in {"fetched", "panicked"})

(* C3 amended: on 6002, 7003, F107 reg[0] is 5 after two steps, and the    *)
(* third step executes F107 as FX07: it returns normally with reg[1] set   *)
(* to delay_timer, reg[0] still 5 and program_counter at 0x206             *)
C3_ThirdStepReadsDelayTimer ==
    /\ [](Scenario /\ chip8.program_counter = PC_START + 4 /\ cpu # "fetched"
            => chip8.registers[0] = 5)
    /\ [][ (Scenario /\ Returns /\ op = Op(15, 1, 0, 7)) =>
             /\ cpu' = "sleep" /\ ~poisoned'
             /\ chip8'.registers[1] = chip8.delay_timer
             /\ chip8'.registers[0] = 5
             /\ chip8'.program_counter = PC_START + 6 ]_vars

(* the third step of the scenario has been executed *)
C3_Witness ==
    /\ Scenario /\ op = Op(15, 1, 0, 7) /\ cpu = "sleep"
    /\ chip8.program_counter = PC_START + 6 /\ chip8.registers[0] = 5

(* The pixels a sprite of n rows at mem[i ..] covers when drawn at (vx, vy) *)
SpritePixels(mem, i, n, vx, vy) ==
    { ((vx + p[2]) % DISPLAY_WIDTH) + DISPLAY_WIDTH * ((vy + p[1]) % DISPLAY_HEIGHT) :
        p \in { q \in (0 .. n - 1) \X (0 .. 7) : Bit(mem[i + q[1]], 7 - q[2]) = 1 } }

Lit(d) == { p \in DOMAIN d : d[p] }

(* The "draw" ROMs: D A B k on the blank display (registers and index 0),  *)
(* 6X a, 6Y b, A i, then DXYN twice at 0x208 and 0x20A.                    *)
DrawRom == rom_path.kind = "draw"
PreDraw == SpritePixels(chip8.memory, 0, rom_path.k, 0, 0)
FirstX  == IF rom_path.x = rom_path.y THEN rom_path.b ELSE rom_path.a
FirstY  == rom_path.b
FirstFlag ==
    Flag(SpritePixels(chip8.memory, rom_path.i, rom_path.n, FirstX, FirstY)
            \cap PreDraw # {})
SamePosition ==
    /\ rom_path.x = 15 => FirstX = FirstFlag
    /\ rom_path.y = 15 => FirstY = FirstFlag
AfterSecondDraw ==
    \/ chip8.program_counter = PC_START + 12 /\ cpu # "fetched"
    \/ chip8.program_counter > PC_START + 12

(* C4: DXYN executed twice in succession with the same sprite at the same  *)
(* (reg[X], reg[Y]) leaves the display as it was before the first of the   *)
(* two draws, and a draw sets reg[15] to 1 exactly when it turns at least  *)
(* one pixel off                                                           *)
C4_DoubleDrawRestores ==
    /\ [](DrawRom /\ AfterSecondDraw /\ SamePosition => Lit(chip8.display) = PreDraw)
    /\ [][ (Completes /\ Digit1 = 13) =>
             chip8'.registers[15] =
                Flag(\E p \in DOMAIN chip8.display :
                        chip8.display[p] /\ ~chip8'.display[p]) ]_vars

(* a 5-row sprite drawn twice across both display edges, over a glyph that *)
(* is on the display: the second draw erased pixels and the glyph is back  *)
C4_Witness ==
    /\ DrawRom /\ rom_path.k = 5 /\ rom_path.n = 5 /\ rom_path.i = 0
    /\ rom_path.x = 0 /\ rom_path.y = 1 /\ rom_path.a = 62 /\ rom_path.b = 30
    /\ chip8.program_counter = PC_START + 12 /\ cpu = "sleep"
    /\ chip8.registers[15] = 1 /\ FirstFlag = 1
    /\ Lit(chip8.display) = PreDraw /\ PreDraw # {}

NoKey == \A k \in 0 .. 15 : ~chip8.keys[k]
WaitOp == Digit1 = 15 /\ Digit3 = 0 /\ Digit4 = 10

(* C5: a step that executes FX0A while no key flag is set leaves           *)
(* program_counter at the FX0A instruction and changes no register; with a *)
(* key flag set it writes the lowest-indexed pressed key into reg[X] and   *)
(* leaves program_counter 2 past the FX0A, and the next instruction then   *)
(* executes from there                                                     *)
C5_WaitKey ==
    /\ [][ (Returns /\ WaitOp /\ NoKey) =>
             /\ cpu' = "sleep"
             /\ chip8'.program_counter = chip8.program_counter - 2
             /\ chip8'.registers = chip8.registers ]_vars
    /\ [][ (Returns /\ WaitOp /\ ~NoKey) =>
             /\ cpu' = "sleep"
             /\ chip8'.program_counter = chip8.program_counter
             /\ \E k \in 0 .. 15 :
                  /\ chip8.keys[k] /\ \A j \in 0 .. k - 1 : ~chip8.keys[j]
                  /\ chip8'.registers = [chip8.registers EXCEPT ![Digit2] = k] ]_vars
    /\ [](rom_path.kind = "wait" /\ cpu # "fetched" =>
             \/ chip8.program_counter = PC_START
                  /\ chip8.registers = [i \in 0 .. 15 |-> 0]
             \/ chip8.program_counter = PC_START + 2
                  /\ chip8.registers[rom_path.x] \in {3, 7}
             \/ chip8.program_counter = PC_START + 4
                  /\ chip8.registers[rom_path.x] \in {4, 8})

(* FX0A saw keys 3 and 7 both down and took 3; the next instruction ran *)
C5_Witness ==
    /\ rom_path.kind = "wait" /\ rom_path.x = 5
    /\ chip8.keys[3] /\ chip8.keys[7]
    /\ chip8.registers[5] = 4 /\ chip8.program_counter = PC_START + 4
    /\ cpu = "sleep"

RetOp == op = 238

(* C6: stack_pointer is within 0..16 in every state; a call with 16        *)
(* addresses on the stack and a return with none end the step in a failure *)
(* that changes neither stack, stack_pointer nor program_counter           *)
C6_StackFaultsAreFatalAndClean ==
    /\ [](chip8.stack_pointer \in 0 .. STACK_SIZE)
    /\ [][ (Returns /\ ( \/ Digit1 = 2 /\ chip8.stack_pointer = STACK_SIZE
                         \/ RetOp /\ chip8.stack_pointer = 0 )) =>
             /\ cpu' = "panicked"
             /\ chip8'.stack = chip8.stack
             /\ chip8'.stack_pointer = chip8.stack_pointer
             /\ chip8'.program_counter = chip8.program_counter ]_vars

NestRom == rom_path.kind = "nest" /\ rom_path.n <= STACK_SIZE

(* C7: in a program of n <= 16 nested calls, each call made in block j     *)
(* happens at depth j; each return resumes just after the call that        *)
(* entered its block, at the depth that call was made at; after the last   *)
(* return program_counter is just after the outermost call and             *)
(* stack_pointer is back at its value before the first call                *)
C7_NestedCallsReturnLifo ==
    /\ [][ (NestRom /\ Returns /\ Digit1 = 2) =>
             LET j == (chip8.program_counter - 2 - PC_START) \div 4
             IN  /\ cpu' = "sleep"
                 /\ chip8.stack_pointer = j /\ chip8'.stack_pointer = j + 1
                 /\ chip8'.program_counter = Block(j + 1) ]_vars
    /\ [][ (NestRom /\ Returns /\ RetOp) =>
             LET j == (chip8.program_counter - 2 - PC_START) \div 4
             IN  /\ cpu' = "sleep"
                 /\ chip8'.program_counter = Block(j - 1) + 2
                 /\ chip8'.stack_pointer = j - 1 ]_vars
    /\ [](NestRom /\ chip8.program_counter = Block(0) + 2 /\ cpu # "fetched"
            => chip8.stack_pointer = 0)

(* sixteen nested calls have all returned *)
C7_Witness ==
    /\ NestRom /\ rom_path.n = STACK_SIZE
    /\ chip8.stack[STACK_SIZE - 1] = Block(STACK_SIZE - 1) + 2
    /\ chip8.program_counter = Block(0) + 2 /\ cpu = "sleep"
    /\ chip8.stack_pointer = 0

CpuInside   == cpu \in {"locked", "fetched"}
TimerInside == timer \in {"locked", "delayed"}
MainInside  == main \in {"key", "render"}

(* C8: at most one of instruction step, timer tick, key update and display *)
(* read is in progress at a time; while an instruction step is between its *)
(* lock and the end of execute, and while a timer tick is between its lock *)
(* and the sound_timer update, no other thread changes the machine state   *)
(* or copies the display                                                   *)
C8_StepsAreAtomic ==
    /\ [](/\ ~(CpuInside /\ TimerInside)
          /\ ~(CpuInside /\ MainInside)
          /\ ~(TimerInside /\ MainInside)
          /\ CpuInside => mutex = "cpu"
          /\ TimerInside => mutex = "timer"
          /\ MainInside => mutex = "main")
    /\ [][ (CpuInside /\ cpu' = cpu) => (chip8' = chip8 /\ frame' = frame) ]_vars
    /\ [][ (TimerInside /\ timer' = timer) =>
             (chip8' = chip8 /\ frame' = frame /\ op' = op) ]_vars
    /\ [][ (MainInside /\ main' = main) => chip8' = chip8 ]_vars

(* a timer tick has decremented delay_timer and not yet sound_timer while  *)
(* the instruction thread and the main loop are both ready to lock         *)
C8_Witness ==
    /\ timer = "delayed" /\ chip8.delay_timer = 1 /\ chip8.sound_timer = 1
    /\ cpu = "start" /\ main = "poll" /\ mutex = "timer"

(* C9: the sleep after an iteration is clamped to zero, so a thread that   *)
(* reaches its sleep always goes on to its next iteration                  *)
C9_OverrunNeverStopsTask ==
    /\ [][ cpu = "sleep" => cpu' \in {"sleep", "start"} ]_vars
    /\ [][ timer = "sleep" => timer' \in {"sleep", "start"} ]_vars

(* C10: a step whose opcode matches no arm fails without changing the      *)
(* machine state; the failed thread takes no further step, and from then   *)
(* on no timer tick, key update or display read acts on the machine state: *)
(* each thread that next asks for the lock fails, and the main loop's next *)
(* request ends the process, which it eventually makes                     *)
C10_UnknownOpcodeIsFatal ==
    /\ [][ (Returns /\ op \in BadOps) =>
             (cpu' = "panicked" /\ poisoned' /\ chip8' = chip8) ]_vars
    /\ [][ poisoned =>
             /\ poisoned' /\ chip8' = chip8 /\ frame' = frame /\ cpu' = "panicked"
             /\ timer' \notin {"locked", "delayed"}
             /\ main' \notin {"key", "render"}
             /\ main' # main => process' = "aborted" ]_vars
    /\ poisoned ~> (process # "running")

(* an unknown opcode was the second instruction: the first was executed,   *)
(* the third never, and the main loop has ended the process                *)
C10_Witness ==
    /\ rom_path.kind = "bad" /\ rom_path.i = Op(5, 1, 2, 0)
    /\ op = Op(5, 1, 2, 0) /\ cpu = "panicked" /\ poisoned
    /\ chip8.registers[0] = 1 /\ chip8.program_counter = PC_START + 4
    /\ timer = "panicked" /\ process = "aborted"

TimersRom == rom_path.kind = "timers"
Decayed(t) == IF t > 0 THEN t - 1 ELSE 0
SetsDelay == Returns /\ Digit1 = 15 /\ Digit3 = 1 /\ Digit4 = 5
SetsSound == Returns /\ Digit1 = 15 /\ Digit3 = 1 /\ Digit4 = 8
TicksDelay == timer = "locked" /\ timer' = "delayed"
TicksSound == timer = "delayed" /\ timer' = "sleep"

(* C11: every timer tick takes exactly 1 off a non-zero delay_timer and    *)
(* leaves a zero one at 0, and nothing but a tick or FX15 changes it, so   *)
(* from 60 it is 60 - k after k ticks, 0 after 60 and 0 ever after; it is  *)
(* never above the value it was set to (no wrap to 255); the same holds    *)
(* for sound_timer with FX18                                               *)
C11_TimersDecayToZero ==
    /\ [][ TicksDelay => chip8'.delay_timer = Decayed(chip8.delay_timer) ]_vars
    /\ [][ TicksSound => chip8'.sound_timer = Decayed(chip8.sound_timer) ]_vars
    /\ [][ chip8'.delay_timer # chip8.delay_timer => (TicksDelay \/ SetsDelay) ]_vars
    /\ [][ chip8'.sound_timer # chip8.sound_timer => (TicksSound \/ SetsSound) ]_vars
    /\ [](TimersRom => /\ chip8.delay_timer \in 0 .. rom_path.a
                       /\ chip8.sound_timer \in 0 .. rom_path.b)
    /\ [][ (chip8.delay_timer = 0 /\ ~SetsDelay) => chip8'.delay_timer = 0 ]_vars
    /\ [][ (chip8.sound_timer = 0 /\ ~SetsSound) => chip8'.sound_timer = 0 ]_vars

(* delay_timer was set to 60 and sound_timer after it; both have decayed   *)
(* to 0 and a further tick has just passed over the zero delay_timer       *)
C11_Witness ==
    /\ TimersRom /\ rom_path.a = 60
    /\ chip8.program_counter = PC_START + 8
    /\ timer = "delayed" /\ chip8.delay_timer = 0 /\ chip8.sound_timer = 0

Even(v) == v % 2 = 0
EvenState(m) == Even(m.program_counter) /\ \A j \in 0 .. STACK_SIZE - 1 : Even(m.stack[j])
Target == IF Digit1 = 11 THEN chip8.registers[0] + (op % 4096) ELSE op % 4096
OddJump == Returns /\ Digit1 \in {1, 2, 11} /\ ~Even(Target)
FlowRom == rom_path.kind = "flow"
NoOddTarget == FlowRom => (Even(rom_path.i) /\ Even(rom_path.k))

(* C12: program_counter starts even, and every step other than a jump,    *)
(* call or BNNN to an odd address keeps it even (with every stored return  *)
(* address): fetch, skips, call, return and the rewind of the wait for a   *)
(* key move it by 2 or to an even address; so it is even in every state of *)
(* a run whose programs jump to even addresses only                        *)
C12_ProgramCounterStaysEven ==
    /\ (cpu = "start" => EvenState(chip8))
    /\ [][ (EvenState(chip8) /\ ~OddJump) => EvenState(chip8') ]_vars
    /\ [](NoOddTarget => Even(chip8.program_counter))

(* 9XY0 skipped over the 4XNN, the call at the end was taken and its       *)
(* subroutine has returned to the instruction after the call               *)
C12_Witness ==
    /\ FlowRom /\ rom_path.a = 1 /\ rom_path.n = 2 /\ NoOddTarget
    /\ cpu = "sleep" /\ op = 238
    /\ chip8.program_counter = PC_START + 12 /\ chip8.stack_pointer = 0

Fetches == cpu = "locked" /\ cpu' # "locked"

(* C13: program_counter is within 0 .. 4095 in every reachable state, and  *)
(* a fetch whose two bytes are not both inside memory fails: the step      *)
(* panics, changes nothing of the machine and executes no instruction      *)
C13_ProgramCounterStaysInMemory ==
    /\ [](chip8.program_counter \in 0 .. MEM_SIZE - 1)
    /\ [][ (Fetches /\ chip8.program_counter + 1 >= MEM_SIZE)
             => (cpu' = "panicked" /\ poisoned' /\ chip8' = chip8 /\ op' = op) ]_vars

ParkRom == rom_path.kind = "park"
AnyKey == \E k \in 0 .. 15 : chip8.keys[k]
Parked ==
    /\ ParkRom /\ WaitOp /\ cpu = "sleep" /\ chip8.program_counter = PC_START + 4
WaitDone ==
    \/ chip8.program_counter > PC_START + 6
    \/ chip8.program_counter = PC_START + 6 /\ cpu # "fetched"

(* C14: a step that executes FX0A with no key pressed gives the lock back, *)
(* and the instruction thread holds the lock only between its lock and the *)
(* end of execute, so the other threads can take it while the program is   *)
(* parked; and when a key is pressed and stays pressed while the process   *)
(* runs, the parked FX0A eventually completes and program_counter moves on *)
C14_ParkedWaitCompletes ==
    /\ [][ (Completes /\ WaitOp /\ NoKey) => mutex' = "free" ]_vars
    /\ [](mutex = "cpu" <=> (cpu \in {"locked", "fetched"}))
    /\ (<>Parked /\ <>[](AnyKey /\ process = "running")) => <>WaitDone

Halting == cpu = "fetched" /\ op = 0

ClsRom == rom_path.kind = "cls"
Idle == cpu \in {"sleep", "start", "locked"}
F0AtOrigin ==
    /\ ClsRom /\ rom_path.i = 0 /\ rom_path.n = 1
    /\ rom_path.a = 0 /\ rom_path.b = 0 /\ rom_path.x = 0
    /\ chip8.memory[0] = 240
AfterDraw1 == chip8.program_counter = PC_START + 12 /\ Idle
AfterDraw2 == chip8.program_counter = PC_START + 14 /\ Idle

(* C16: 00E0 leaves every pixel false; a DXYN on a display with every      *)
(* pixel false lights exactly the pixels ((reg[X] + c) mod 64,             *)
(* (reg[Y] + r) mod 32) of the set bits c (from the high bit) of row r of  *)
(* the sprite and sets reg[15] to 0; the sprite byte 0xF0 at (0, 0) with   *)
(* height 1 lights (0,0) .. (3,0), and drawn again clears them with        *)
(* reg[15] == 1                                                            *)
C16_DrawOnClearedDisplay ==
    /\ [][ (Completes /\ op = 224) => Lit(chip8'.display) = {} ]_vars
    /\ [][ (Completes /\ Digit1 = 13 /\ Lit(chip8.display) = {}) =>
             /\ Lit(chip8'.display) =
                  SpritePixels(chip8.memory, chip8.index, Digit4,
                               chip8.registers[Digit2], chip8.registers[Digit3])
             /\ chip8'.registers[15] = 0 ]_vars
    /\ [](F0AtOrigin /\ AfterDraw1 =>
             Lit(chip8.display) = {0, 1, 2, 3} /\ chip8.registers[15] = 0)
    /\ [](F0AtOrigin /\ AfterDraw2 =>
             Lit(chip8.display) = {} /\ chip8.registers[15] = 1)

(* the display held a glyph, was cleared, and a 15-row sprite drawn at     *)
(* (255, 255) has wrapped around both edges                                *)
C16_Witness ==
    /\ ClsRom /\ rom_path.n = 15 /\ rom_path.a = 255 /\ rom_path.x = 0
    /\ rom_path.i = 75 /\ AfterDraw1
    /\ chip8.registers[15] = 0
    /\ Lit(chip8.display) = SpritePixels(chip8.memory, 75, 15, 255, 255)
    /\ 63 \in Lit(chip8.display) /\ 1984 \in Lit(chip8.display)

MemRom == rom_path.kind = "mem"
StoreOp == Digit1 = 15 /\ Digit3 = 5 /\ Digit4 = 5
LoadOp == Digit1 = 15 /\ Digit3 = 6 /\ Digit4 = 5
AfterLoad == MemRom /\ chip8.program_counter = PC_START + 70 /\ Idle

(* C17: with index + X <= 4095, FX55 completes and writes exactly          *)
(* memory[index + i] = reg[i] for i in 0 ..= X, and FX65 completes and     *)
(* loads exactly reg[0 ..= X] from those cells; neither changes index nor  *)
(* anything else of what they read; so FX55, any writes to the registers,  *)
(* then FX65 with index unchanged restores reg[0 ..= X] and leaves the     *)
(* registers above X as they were written in between                       *)
C17_StoreLoadRoundTrip ==
    /\ [][ (Returns /\ (StoreOp \/ LoadOp) /\ chip8.index + Digit2 <= MEM_SIZE - 1)
             => Completes ]_vars
    /\ [][ (Completes /\ StoreOp) =>
             /\ chip8'.memory =
                  [c \in 0 .. MEM_SIZE - 1 |->
                      IF c \in chip8.index .. chip8.index + Digit2
                      THEN chip8.registers[c - chip8.index] ELSE chip8.memory[c]]
             /\ chip8'.registers = chip8.registers
             /\ chip8'.index = chip8.index ]_vars
    /\ [][ (Completes /\ LoadOp) =>
             /\ chip8'.registers =
                  [j \in 0 .. 15 |->
                      IF j <= Digit2 THEN chip8.memory[chip8.index + j]
                      ELSE chip8.registers[j]]
             /\ chip8'.memory = chip8.memory
             /\ chip8'.index = chip8.index ]_vars
    /\ [](AfterLoad =>
             \A j \in 0 .. 15 :
                chip8.registers[j] =
                    IF j <= rom_path.x THEN Stored(rom_path, j) ELSE Scratch(j))

(* registers 0 .. 2 were stored in the last three cells of memory, all     *)
(* sixteen registers overwritten, and FX65 has brought 0 .. 2 back         *)
C17_Witness ==
    /\ AfterLoad /\ rom_path.x = 2 /\ rom_path.i = MEM_SIZE - 3
    /\ chip8.index = MEM_SIZE - 3
    /\ chip8.memory[MEM_SIZE - 1] = 13 /\ chip8.registers[2] = 13
    /\ chip8.registers[3] = 252

BcdOp == Digit1 = 15 /\ Digit3 = 3 /\ Digit4 = 3

(* C18: with index + 2 <= 4095, FX33 completes and leaves the hundreds,    *)
(* tens and ones digit of reg[X] in memory[index], memory[index + 1] and   *)
(* memory[index + 2]: each is in 0 .. 9 and together they spell the value; *)
(* no other memory cell, no register and not index changes                 *)
C18_BcdDigits ==
    [][ (Returns /\ BcdOp /\ chip8.index + 2 <= MEM_SIZE - 1) =>
          LET v == chip8.registers[Digit2]
              i == chip8.index
          IN  /\ Completes
              /\ chip8'.memory[i] = v \div 100
              /\ chip8'.memory[i + 1] = (v \div 10) % 10
              /\ chip8'.memory[i + 2] = v % 10
              /\ \A d \in 0 .. 2 : chip8'.memory[i + d] \in 0 .. 9
              /\ 100 * chip8'.memory[i] + 10 * chip8'.memory[i + 1]
                    + chip8'.memory[i + 2] = v
              /\ \A c \in 0 .. MEM_SIZE - 1 :
                    c \notin i .. i + 2 => chip8'.memory[c] = chip8.memory[c]
              /\ chip8'.registers = chip8.registers
              /\ chip8'.index = i ]_vars

(* 255 in reg[15] has been converted into the last three cells of memory *)
C18_Witness ==
    /\ rom_path.kind = "bcd" /\ BcdOp /\ cpu = "sleep"
    /\ chip8.registers[15] = 255 /\ chip8.index = MEM_SIZE - 3
    /\ chip8.memory[MEM_SIZE - 3] = 2 /\ chip8.memory[MEM_SIZE - 2] = 5
    /\ chip8.memory[MEM_SIZE - 1] = 5

KeyStep == main = "key" /\ main' # "key"
Machine(m) ==
    <<m.memory, m.registers, m.index, m.program_counter, m.stack, m.stack_pointer,
      m.display>>

(* C19: a timer tick changes nothing but the timer it tests, which stays   *)
(* at 0 or goes down by exactly 1; a key event changes nothing but the     *)
(* flag of the key it names; so memory, registers, index, program_counter, *)
(* stack, stack_pointer and display change in instruction steps only, a    *)
(* timer goes up only in FX15 / FX18, and no instruction changes a key     *)
(* flag                                                                    *)
C19_TicksAndKeysFrame ==
    /\ [][ TicksDelay =>
             /\ chip8' = [chip8 EXCEPT !.delay_timer = chip8'.delay_timer]
             /\ chip8'.delay_timer = Decayed(chip8.delay_timer) ]_vars
    /\ [][ TicksSound =>
             /\ chip8' = [chip8 EXCEPT !.sound_timer = chip8'.sound_timer]
             /\ chip8'.sound_timer = Decayed(chip8.sound_timer) ]_vars
    /\ [][ KeyStep =>
             /\ key_code(event.keycode) \in 0 .. 15
             /\ chip8' = [chip8 EXCEPT !.keys[key_code(event.keycode)] =
                                          (event.type = "KeyDown")] ]_vars
    /\ [][ Machine(chip8') # Machine(chip8) => (CpuInside /\ cpu' # cpu) ]_vars
    /\ [][ chip8'.delay_timer > chip8.delay_timer => SetsDelay ]_vars
    /\ [][ chip8'.sound_timer > chip8.sound_timer => SetsSound ]_vars
    /\ [][ chip8'.keys # chip8.keys => KeyStep ]_vars

(* delay_timer was set to 2 and has been ticked once, sound_timer has      *)
(* ticked from 1 to 0, and keys 3 and 7 are held down                      *)
C19_Witness ==
    /\ TimersRom /\ chip8.program_counter = PC_START + 8
    /\ timer = "sleep" /\ chip8.delay_timer = 1 /\ chip8.sound_timer = 0
    /\ chip8.keys[3] /\ chip8.keys[7] /\ main = "poll"

KeyskipRom == rom_path.kind = "keyskip"
SkipPressed == Digit1 = 14 /\ Digit3 = 9 /\ Digit4 = 14
SkipReleased == Digit1 = 14 /\ Digit3 = 10 /\ Digit4 = 1
Tested == chip8.registers[Digit2]

(* C20: EX9E / EXA1 with reg[X] in 0 .. 15 complete, add 2 to              *)
(* program_counter exactly when key reg[X] is pressed (EX9E) or not        *)
(* pressed (EXA1) and change nothing else; with reg[X] >= 16 they test no  *)
(* key and skip nothing: the step panics with the machine unchanged, and   *)
(* the instruction thread never runs again                                 *)
C20_KeySkips ==
    /\ [][ (Returns /\ (SkipPressed \/ SkipReleased) /\ Tested <= 15) =>
             /\ Completes
             /\ chip8' = [chip8 EXCEPT !.program_counter =
                            IF chip8.keys[Tested] = SkipPressed
                            THEN chip8.program_counter + 2
                            ELSE chip8.program_counter] ]_vars
    /\ [][ (Returns /\ (SkipPressed \/ SkipReleased) /\ Tested >= 16) =>
             (cpu' = "panicked" /\ poisoned' /\ chip8' = chip8) ]_vars
    /\ [][ cpu = "panicked" => (cpu' = "panicked" /\ chip8'.program_counter
                                  = chip8.program_counter) ]_vars

(* EX9E on reg[5] == 19 has ended the run while key 3 (19 mod 16) was held *)
C20_Witness ==
    /\ KeyskipRom /\ SkipPressed /\ cpu = "panicked" /\ poisoned
    /\ chip8.registers[5] = 19 /\ chip8.keys[3]
    /\ chip8.program_counter = PC_START + 4

====
